---- MODULE Spec2Model ----
(***************************************************************************)
(* Model of src/src/perf_map.rs: the key pool (Keys), the operation mix    *)
(* (Mix::to_ops), the worker loop (run_ops) and the benchmark driver       *)
(* (run_shared_map_test) with its barrier, its results mutex and its join. *)
(*                                                                         *)
(* Thread 0 is the coordinator (the caller of run_shared_map_test), the    *)
(* threads 1..thread_count are the workers it spawns.  Positions in the    *)
(* backing store are 0-based as in the source; keys[p + 1] is the key at   *)
(* position p.  Every access to shared state (the atomic cursor, the       *)
(* barrier, the mutex, the collection) is one atomic step; the thread-local *)
(* computation that follows it belongs to the same step.  Counts are usize  *)
(* in the source; the store, the counts and the thread count stay far      *)
(* below 2^64, so the cursor never wraps and plain integers model it.      *)
(***************************************************************************)
EXTENDS Integers, Sequences, FiniteSets, TLC

\* ------------------------------------------------------------------ bounds
MaxThreads == 2
MaxOps == 4
MaxPrefill == 1
MaxKeysPerThread == 1
MaxTotalKeys == 3
MaxRand == 3
MaxCount == 4
MaxCursor == 6
MaxWeight == 2
MaxMixLen == 5

Threads == 0..MaxThreads
WorkerIds == 1..MaxThreads

\* ------------------------------------------------------------ Operation, Mix
Operation == {"Read", "Insert", "Remove", "Update", "Upsert"}

Mixes ==
    { [read |-> 1, insert |-> 0, remove |-> 0, update |-> 0, upsert |-> 0],
      [read |-> 0, insert |-> 1, remove |-> 0, update |-> 0, upsert |-> 0],
      [read |-> 0, insert |-> 1, remove |-> 1, update |-> 0, upsert |-> 0],
      [read |-> 0, insert |-> 0, remove |-> 0, update |-> 1, upsert |-> 1],
      [read |-> 0, insert |-> 0, remove |-> 0, update |-> 0, upsert |-> 0] }

Repeat(tag, n) == [i \in 1..n |-> tag]

\* to_ops before the shuffle: each tag repeated weight times, in declaration order
Expand(m) ==
    Repeat("Read", m.read) \o Repeat("Insert", m.insert) \o Repeat("Remove", m.remove)
        \o Repeat("Update", m.update) \o Repeat("Upsert", m.upsert)

\* a shuffle that draws every position afresh from the tags of the list
ShufflesResampled(list) == [1..Len(list) -> { list[i] : i \in 1..Len(list) }]

\* list.shuffle: the list rearranged by some permutation of its positions
Shuffles(list) ==
    { [i \in 1..Len(list) |-> list[p[i]]] : p \in Permutations(1..Len(list)) }

ToOps(m) == Shuffles(Expand(m))

\* ------------------------------------------------------------------- Keys
\* a store built without the uniqueness set: the same value drawn every time
KeyStoresRepeating(total_keys) == { [i \in 1..total_keys |-> 1] }

\* Keys::new: total_keys pairwise distinct keys in the order the set yields them.
\* The program only clones keys and hands them to the collection, which compares
\* them for equality, so up to a renaming of the key values the store is 1..total_keys.
KeyStores(total_keys) == { [i \in 1..total_keys |-> i] }

\* a store in place of the add
FetchAddStores(cursor, count) == count

\* a cursor one bit wide, which wraps on the add
FetchAddWraps(cursor, count) == (cursor + count) % 2

\* fetch_add(count): the new value of the cursor
FetchAdd(cursor, count) == cursor + count

\* a slice that is never checked against the store
SliceUnchecked(i, count, len) == TRUE

\* &self.keys[i..(i + count)]: the slice is in bounds
SliceInBounds(i, count, len) == i + count <= len

\* a random position that is not reduced to the allocated prefix
RandomIndexRaw(i, cursor) == i

\* i % allocated
RandomIndex(i, cursor) == i % cursor

\* self.keys[p]: the index is in bounds
IndexInBounds(p, len) == p < len

\* a division that rounds up
OpsPerThreadRoundedUp(total_ops, num_threads) == (total_ops + num_threads - 1) \div num_threads

\* config.total_ops / num_threads
OpsPerThreadOf(total_ops, num_threads) == total_ops \div num_threads

\* ops_per_thread as u64 * num_threads as u64
RealTotalOps(ops_per_thread, num_threads) == ops_per_thread * num_threads

NoSlice == [has |-> FALSE, lo |-> 0, n |-> 0, pos |-> 0]
NoRet == [op |-> "none", arg |-> 0, before |-> 0, ok |-> TRUE, lo |-> 0, hi |-> 0, got |-> <<>>,
          prev |-> "none", prev_before |-> 0]

\* a reset that leaves the cursor where it is
ResetCursorKept(cursor) == cursor

\* store(0): the value reset leaves in the cursor
ResetCursor(cursor) == 0
NoConfig == [thread_count |-> 0, total_ops |-> 0, prefill |-> 0,
             keys_needed_per_thread |-> 0, operations |-> <<>>]
NoMix == [read |-> 0, insert |-> 0, remove |-> 0, update |-> 0, upsert |-> 0]
NoOps == [done |-> FALSE, list |-> <<>>]
NoMeasurement == [made |-> FALSE, durations |-> <<>>, real_total_ops |-> 0, thread_count |-> 0]

VARIABLES
    keys,                   \* Keys.keys: the backing store
    allocated,              \* Keys.allocated: the allocation cursor
    pool_ret,               \* what the last direct call on the pool returned
    config,                 \* SharedMapTestConfig
    cpc, ci, cpanic,        \* coordinator: position, loop counter, cause of its panic
    wpc, wi, total_success, wpanic,   \* workers: position, loop index i, tally, cause of panic
    new_keys,               \* per thread: the slice alloc_n returned and the cycle position
    barrier,                \* Barrier: parties arrived, generation
    mutex, results,         \* the results mutex (holder, 0 = free) and the list it guards
    coll,                   \* keys present in the collection under test
    measurement,            \* what run_shared_map_test handed to the aggregator and returned
    pin_calls, prefill_complete_calls, prefill_inserts,
    inserted,               \* per thread: the keys it passed to insert
    calls,                  \* per worker: the kinds of the collection calls it dispatched
    mix, to_ops_ret,        \* a Mix and what Mix::to_ops returned for it
    handle_users,           \* per handle (named by the thread that pinned it): the threads that called it
    insert_log,             \* per thread: the store positions of the keys it inserted, in order
    reset_calls             \* the calls of keys.reset() made by the run

vars == <<keys, allocated, pool_ret, config, cpc, ci, cpanic, wpc, wi, total_success,
          wpanic, new_keys, barrier, mutex, results, coll, measurement, pin_calls,
          prefill_complete_calls, prefill_inserts, inserted, calls, mix, to_ops_ret,
          handle_users, insert_log, reset_calls>>

poolVars == <<keys, allocated, pool_ret>>
coordVars == <<cpc, ci, cpanic>>
workerVars == <<wpc, wi, total_success, wpanic>>
histVars == <<pin_calls, prefill_complete_calls, prefill_inserts, inserted, calls,
              handle_users, insert_log, reset_calls>>
cfgVars == <<config, mix, to_ops_ret>>

Workers == 1..config.thread_count
OpsPerThread == OpsPerThreadOf(config.total_ops, config.thread_count)
KeyAt(p) == keys[p + 1]

Configs ==
    { c \in [thread_count : 0..MaxThreads, total_ops : 0..MaxOps, prefill : 0..MaxPrefill,
             keys_needed_per_thread : 0..MaxKeysPerThread,
             operations : UNION { ToOps(m) : m \in Mixes }] : TRUE }

InitRun ==
    /\ cpc = "start" /\ ci = 0 /\ cpanic = "none"
    /\ wpc = [w \in WorkerIds |-> "unspawned"]
    /\ wi = [w \in WorkerIds |-> 0]
    /\ total_success = [w \in WorkerIds |-> 0]
    /\ wpanic = [w \in WorkerIds |-> "none"]
    /\ new_keys = [t \in Threads |-> NoSlice]
    /\ barrier = [count |-> 0, generation_id |-> 0]
    /\ mutex = 0 /\ results = <<>>
    /\ coll = {}
    /\ measurement = NoMeasurement
    /\ pin_calls = 0 /\ prefill_complete_calls = 0 /\ prefill_inserts = 0
    /\ inserted = [t \in Threads |-> {}]
    /\ calls = [w \in WorkerIds |-> <<>>]
    /\ handle_users = [t \in Threads |-> {}]
    /\ insert_log = [t \in Threads |-> <<>>]
    /\ reset_calls = 0

\* A run starts on a pool built by Keys::new, fresh or left by an earlier run,
\* with the operations Mix::to_ops made of a mix.
Init ==
    /\ \E total_keys \in 0..MaxTotalKeys : keys \in KeyStores(total_keys)
    /\ allocated \in {0, Len(keys)}
    /\ pool_ret = NoRet
    /\ mix \in Mixes
    /\ \E list \in ToOps(mix) : to_ops_ret = [done |-> TRUE, list |-> list]
    /\ config \in { c \in Configs : c.operations = to_ops_ret.list }
    /\ InitRun

\* ----------------------------------------------------------- coordinator
\* lines 241-248: the barrier for thread_count + 1 parties, ops_per_thread;
\* the integer division panics when thread_count is 0
Setup ==
    /\ cpc = "start"
    /\ IF config.thread_count = 0
          THEN cpc' = "panicked" /\ cpanic' = "divide_by_zero"
          ELSE cpc' = "reset" /\ cpanic' = cpanic
    /\ barrier' = [count |-> 0, generation_id |-> 0]
    /\ results' = <<>>
    /\ UNCHANGED <<poolVars, cfgVars, ci, workerVars, new_keys, mutex, coll, measurement, histVars>>

\* line 250: keys.reset()
KeysReset ==
    /\ cpc = "reset"
    /\ allocated' = ResetCursor(allocated)
    /\ reset_calls' = reset_calls + 1
    /\ cpc' = "prefill_alloc"
    /\ UNCHANGED <<keys, pool_ret, cfgVars, ci, cpanic, workerVars, new_keys, barrier, mutex,
                   results, coll, measurement, pin_calls, prefill_complete_calls,
                   prefill_inserts, inserted, calls, handle_users, insert_log>>

\* line 251: keys.alloc_n(config.prefill).iter().cycle()
PrefillAlloc ==
    /\ cpc = "prefill_alloc"
    /\ allocated' = FetchAdd(allocated, config.prefill)
    /\ IF SliceInBounds(allocated, config.prefill, Len(keys))
          THEN /\ new_keys' = [new_keys EXCEPT ![0] =
                      [has |-> TRUE, lo |-> allocated, n |-> config.prefill, pos |-> 0]]
               /\ cpc' = "pin" /\ cpanic' = cpanic
          ELSE /\ new_keys' = new_keys
               /\ cpc' = "panicked" /\ cpanic' = "alloc_n"
    /\ UNCHANGED <<keys, pool_ret, cfgVars, ci, workerVars, barrier, mutex, results, coll,
                   measurement, histVars>>

\* line 252: collection.pin()
PrefillPin ==
    /\ cpc = "pin"
    /\ pin_calls' = pin_calls + 1
    /\ cpc' = "prefill_insert" /\ ci' = 0
    /\ UNCHANGED <<poolVars, cfgVars, cpanic, workerVars, new_keys, barrier, mutex, results,
                   coll, measurement, prefill_complete_calls, prefill_inserts, inserted, calls,
                   handle_users, insert_log, reset_calls>>

\* a prefill loop that stops one insert short
PrefillLoopShort(i, prefill) == i + 1 < prefill

\* line 253: the prefill loop runs while i < config.prefill
PrefillLoopRuns(i, prefill) == i < prefill

\* lines 253-255: inserter.insert(new_keys.next().unwrap().clone())
PrefillInsert ==
    /\ cpc = "prefill_insert"
    /\ PrefillLoopRuns(ci, config.prefill)
    /\ LET s == new_keys[0]
           key == KeyAt(s.lo + s.pos)
       IN /\ coll' = coll \cup {key}
          /\ inserted' = [inserted EXCEPT ![0] = @ \cup {key}]
          /\ insert_log' = [insert_log EXCEPT ![0] = Append(@, s.lo + s.pos)]
          /\ new_keys' = [new_keys EXCEPT ![0].pos = (s.pos + 1) % s.n]
    /\ handle_users' = [handle_users EXCEPT ![0] = @ \cup {0}]
    /\ prefill_inserts' = prefill_inserts + 1
    /\ ci' = ci + 1
    /\ UNCHANGED <<poolVars, cfgVars, cpc, cpanic, workerVars, barrier, mutex, results,
                   measurement, pin_calls, prefill_complete_calls, calls, reset_calls>>

\* line 257: collection.prefill_complete(), once the prefill loop has ended
PrefillComplete ==
    /\ cpc = "prefill_insert"
    /\ ~PrefillLoopRuns(ci, config.prefill)
    /\ prefill_complete_calls' = prefill_complete_calls + 1
    /\ cpc' = "spawn" /\ ci' = 0
    /\ UNCHANGED <<poolVars, cfgVars, cpanic, workerVars, new_keys, barrier, mutex, results,
                   coll, measurement, pin_calls, prefill_inserts, inserted, calls,
                   handle_users, insert_log, reset_calls>>

\* lines 262-291: thread::spawn of the next worker
Spawn ==
    /\ cpc = "spawn"
    /\ ci < config.thread_count
    /\ wpc' = [wpc EXCEPT ![ci + 1] = "pin"]
    /\ ci' = ci + 1
    /\ UNCHANGED <<poolVars, cfgVars, cpc, cpanic, wi, total_success, wpanic, new_keys, barrier,
                   mutex, results, coll, measurement, histVars>>

\* Barrier::wait, arrival: the last of the thread_count + 1 parties opens the
\* next generation and returns at once, the others block
BarrierFull(count, num_threads) == count + 1 >= num_threads + 1

\* line 293: barrier.wait() of the coordinator, after the spawn loop
CoordBarrierWait ==
    /\ cpc = "spawn"
    /\ ci >= config.thread_count
    /\ IF BarrierFull(barrier.count, config.thread_count)
          THEN /\ barrier' = [count |-> 0, generation_id |-> barrier.generation_id + 1]
               /\ cpc' = "join"
          ELSE /\ barrier' = [barrier EXCEPT !.count = @ + 1]
               /\ cpc' = "waiting"
    /\ ci' = 0
    /\ UNCHANGED <<poolVars, cfgVars, cpanic, workerVars, new_keys, mutex, results, coll,
                   measurement, histVars>>

\* line 293: the coordinator is released from the barrier
CoordBarrierPass ==
    /\ cpc = "waiting"
    /\ barrier.generation_id > 0
    /\ cpc' = "join"
    /\ UNCHANGED <<poolVars, cfgVars, ci, cpanic, workerVars, new_keys, barrier, mutex, results,
                   coll, measurement, histVars>>

\* a join whose result is dropped
JoinIgnored(state) == TRUE

\* line 295: join() is Ok when the thread returned, Err when it panicked
JoinOk(state) == state = "finished"

\* lines 294-296: handle.join().unwrap() on the next worker, in spawn order
Join ==
    /\ cpc = "join"
    /\ ci < config.thread_count
    /\ wpc[ci + 1] \in {"finished", "panicked"}
    /\ IF JoinOk(wpc[ci + 1])
          THEN ci' = ci + 1 /\ cpc' = cpc /\ cpanic' = cpanic
          ELSE ci' = ci /\ cpc' = "panicked" /\ cpanic' = "join"
    /\ UNCHANGED <<poolVars, cfgVars, workerVars, new_keys, barrier, mutex, results, coll,
                   measurement, histVars>>

\* lines 298-307: real_total_ops, calc_av_nanos(results, real_total_ops), the Measurement
Aggregate ==
    /\ cpc = "join"
    /\ ci >= config.thread_count
    /\ measurement' = [made |-> TRUE, durations |-> results,
                       real_total_ops |-> RealTotalOps(OpsPerThread, config.thread_count),
                       thread_count |-> config.thread_count]
    /\ cpc' = "done"
    /\ UNCHANGED <<poolVars, cfgVars, ci, cpanic, workerVars, new_keys, barrier, mutex, results,
                   coll, histVars>>

\* ---------------------------------------------------------------- workers
\* line 274: collection.pin() in the spawned thread
WorkerPin(w) ==
    /\ wpc[w] = "pin"
    /\ pin_calls' = pin_calls + 1
    /\ wpc' = [wpc EXCEPT ![w] = "barrier"]
    /\ UNCHANGED <<poolVars, cfgVars, coordVars, wi, total_success, wpanic, new_keys, barrier,
                   mutex, results, coll, measurement, prefill_complete_calls, prefill_inserts,
                   inserted, calls, handle_users, insert_log, reset_calls>>

\* lines 275-276: barrier.wait(); the last party to arrive returns at once and
\* takes its start_time
WorkerBarrierWait(w) ==
    /\ wpc[w] = "barrier"
    /\ IF BarrierFull(barrier.count, config.thread_count)
          THEN /\ barrier' = [count |-> 0, generation_id |-> barrier.generation_id + 1]
               /\ wpc' = [wpc EXCEPT ![w] = "run_ops"]
          ELSE /\ barrier' = [barrier EXCEPT !.count = @ + 1]
               /\ wpc' = [wpc EXCEPT ![w] = "waiting"]
    /\ UNCHANGED <<poolVars, cfgVars, coordVars, wi, total_success, wpanic, new_keys, mutex,
                   results, coll, measurement, histVars>>

\* lines 275-276: a blocked worker is released and takes its start_time
WorkerBarrierPass(w) ==
    /\ wpc[w] = "waiting"
    /\ barrier.generation_id > 0
    /\ wpc' = [wpc EXCEPT ![w] = "run_ops"]
    /\ UNCHANGED <<poolVars, cfgVars, coordVars, wi, total_success, wpanic, new_keys, barrier,
                   mutex, results, coll, measurement, histVars>>

\* lines 201-204 (run_ops): keys.alloc_n(keys_needed_per_thread).iter().cycle()
WorkerAllocN(w) ==
    /\ wpc[w] = "run_ops"
    /\ allocated' = FetchAdd(allocated, config.keys_needed_per_thread)
    /\ IF SliceInBounds(allocated, config.keys_needed_per_thread, Len(keys))
          THEN /\ new_keys' = [new_keys EXCEPT ![w] =
                      [has |-> TRUE, lo |-> allocated, n |-> config.keys_needed_per_thread,
                       pos |-> 0]]
               /\ wpc' = [wpc EXCEPT ![w] = "loop"]
               /\ wpanic' = wpanic
          ELSE /\ new_keys' = new_keys
               /\ wpc' = [wpc EXCEPT ![w] = "panicked"]
               /\ wpanic' = [wpanic EXCEPT ![w] = "alloc_n"]
    /\ UNCHANGED <<keys, pool_ret, cfgVars, coordVars, wi, total_success, barrier, mutex,
                   results, coll, measurement, histVars>>

\* an Upsert that is dispatched to insert
CallOfUpsertInserts(op) ==
    CASE op = "Read" -> "get"
      [] op = "Insert" -> "insert"
      [] op = "Remove" -> "remove"
      [] op = "Update" -> "update"
      [] op = "Upsert" -> "insert"

\* a Read that is dispatched to remove
CallOfReadRemoves(op) ==
    CASE op = "Read" -> "remove"
      [] op = "Insert" -> "insert"
      [] op = "Remove" -> "remove"
      [] op = "Update" -> "update"
      [] op = "Upsert" -> "update"

\* lines 209-227: the collection call an operation tag is dispatched to
CallOf(op) ==
    CASE op = "Read" -> "get"
      [] op = "Insert" -> "insert"
      [] op = "Remove" -> "remove"
      [] op = "Update" -> "update"
      [] op = "Upsert" -> "update"

\* the collection under test: what a call returns, and the keys it leaves
CallResult(call, key, present) ==
    IF call = "insert" THEN key \notin present ELSE key \in present

CallEffect(call, key, present) ==
    CASE call = "insert" -> present \cup {key}
      [] call = "remove" -> present \ {key}
      [] OTHER -> present

\* line 207: op_mix[i % op_mix_count]
OpAt(op_mix, i) == op_mix[(i % Len(op_mix)) + 1]

\* line 229: total_success += if success { 0 } else { 1 }
Tally(total, success) == total + (IF success THEN 0 ELSE 1)

\* line 206: the loop runs while i < ops_per_thread
LoopRuns(i, ops_per_thread) == i < ops_per_thread

WorkerPanics(w, cause) ==
    /\ wpc' = [wpc EXCEPT ![w] = "panicked"]
    /\ wpanic' = [wpanic EXCEPT ![w] = cause]
    /\ UNCHANGED <<poolVars, cfgVars, coordVars, wi, total_success, new_keys, barrier, mutex,
                   results, coll, measurement, histVars>>

\* a worker that calls through the handle the coordinator pinned
HandleShared(w) == 0

\* line 278: &dict, the handle the worker's closure pinned at line 274
HandleUsed(w) == w

WorkerCalls(w, call, key) ==
    /\ coll' = CallEffect(call, key, coll)
    /\ handle_users' = [handle_users EXCEPT ![HandleUsed(w)] = @ \cup {w}]
    /\ total_success' = [total_success EXCEPT ![w] = Tally(@, CallResult(call, key, coll))]
    /\ calls' = [calls EXCEPT ![w] = Append(@, call)]
    /\ wi' = [wi EXCEPT ![w] = @ + 1]
    /\ UNCHANGED <<poolVars, cfgVars, coordVars, wpc, wpanic, barrier, mutex, results,
                   measurement, pin_calls, prefill_complete_calls, prefill_inserts,
                   reset_calls>>

\* lines 206-229: one iteration of the loop of run_ops, with the random usize r
WorkerOp(w) ==
    /\ wpc[w] = "loop"
    /\ LoopRuns(wi[w], OpsPerThread)
    /\ \E r \in 0..MaxRand :
        IF Len(config.operations) = 0
        THEN WorkerPanics(w, "op_mix")
        ELSE LET call == CallOf(OpAt(config.operations, wi[w]))
                 s == new_keys[w]
             IN IF call = "insert"
                THEN IF s.n = 0
                     THEN WorkerPanics(w, "new_keys")
                     ELSE /\ WorkerCalls(w, call, KeyAt(s.lo + s.pos))
                          /\ new_keys' = [new_keys EXCEPT ![w].pos = (s.pos + 1) % s.n]
                          /\ inserted' = [inserted EXCEPT ![w] = @ \cup {KeyAt(s.lo + s.pos)}]
                          /\ insert_log' = [insert_log EXCEPT ![w] = Append(@, s.lo + s.pos)]
                ELSE IF allocated = 0
                     THEN WorkerPanics(w, "random")
                     ELSE IF ~IndexInBounds(RandomIndex(r, allocated), Len(keys))
                          THEN WorkerPanics(w, "random")
                          ELSE /\ WorkerCalls(w, call, KeyAt(RandomIndex(r, allocated)))
                               /\ UNCHANGED <<new_keys, inserted, insert_log>>

\* lines 209-227: the call on the collection under test panics
WorkerOpPanic(w) ==
    /\ wpc[w] = "loop"
    /\ LoopRuns(wi[w], OpsPerThread)
    /\ Len(config.operations) > 0
    /\ WorkerPanics(w, "collection")

\* a lock that is granted while another thread holds it
MutexUnguarded(holder) == TRUE

\* line 286: lock() returns once no thread holds the mutex
MutexFree(holder) == holder = 0

\* lines 285-286: the loop has ended; start_time.elapsed(), results_clone.lock().unwrap()
WorkerLock(w) ==
    /\ wpc[w] = "loop"
    /\ ~LoopRuns(wi[w], OpsPerThread)
    /\ MutexFree(mutex)
    /\ mutex' = w
    /\ wpc' = [wpc EXCEPT ![w] = "push"]
    /\ UNCHANGED <<poolVars, cfgVars, coordVars, wi, total_success, wpanic, new_keys, barrier,
                   results, coll, measurement, histVars>>

\* lines 287-288: results.push(elapsed); the guard is dropped as the closure ends
WorkerPush(w) ==
    /\ wpc[w] = "push"
    /\ mutex = w
    /\ results' = Append(results, w)
    /\ mutex' = 0
    /\ wpc' = [wpc EXCEPT ![w] = "finished"]
    /\ UNCHANGED <<poolVars, cfgVars, coordVars, wi, total_success, wpanic, new_keys, barrier,
                   coll, measurement, histVars>>

Next ==
    \/ Setup
    \/ KeysReset
    \/ PrefillAlloc
    \/ PrefillPin
    \/ PrefillInsert
    \/ PrefillComplete
    \/ Spawn
    \/ CoordBarrierWait
    \/ CoordBarrierPass
    \/ Join
    \/ Aggregate
    \/ \E w \in Workers :
        \/ WorkerPin(w)
        \/ WorkerBarrierWait(w)
        \/ WorkerBarrierPass(w)
        \/ WorkerAllocN(w)
        \/ WorkerOp(w)
        \/ WorkerOpPanic(w)
        \/ WorkerLock(w)
        \/ WorkerPush(w)

Spec == Init /\ [][Next]_vars

\* ------------------------------------------- a run under fair scheduling
\* The run with collection calls that all return: every thread that can take a
\* step eventually takes one.
CoordStep ==
    \/ Setup
    \/ KeysReset
    \/ PrefillAlloc
    \/ PrefillPin
    \/ PrefillInsert
    \/ PrefillComplete
    \/ Spawn
    \/ CoordBarrierWait
    \/ CoordBarrierPass
    \/ Join
    \/ Aggregate

WorkerStep(w) ==
    \/ WorkerPin(w)
    \/ WorkerBarrierWait(w)
    \/ WorkerBarrierPass(w)
    \/ WorkerAllocN(w)
    \/ WorkerOp(w)
    \/ WorkerLock(w)
    \/ WorkerPush(w)

FairNext ==
    \/ CoordStep
    \/ \E w \in Workers : WorkerStep(w)

FairSpec ==
    /\ Init
    /\ [][FairNext]_vars
    /\ WF_vars(CoordStep)
    /\ \A w \in WorkerIds : WF_vars(WorkerStep(w))

\* ------------------------------------------------- the pool called directly
\* A pool built by Keys::new, before any call.
PoolInit ==
    /\ \E total_keys \in 0..MaxTotalKeys : keys \in KeyStores(total_keys)
    /\ allocated = 0
    /\ pool_ret = NoRet
    /\ config = NoConfig
    /\ mix = NoMix /\ to_ops_ret = NoOps
    /\ InitRun

runVars == <<cfgVars, coordVars, workerVars, new_keys, barrier, mutex, results, coll,
             measurement, histVars>>

\* lines 101-103: Keys::reset
PoolReset ==
    /\ allocated' = ResetCursor(allocated)
    /\ pool_ret' = [NoRet EXCEPT !.op = "reset", !.before = allocated,
                                 !.prev = pool_ret.op, !.prev_before = pool_ret.before]
    /\ UNCHANGED <<keys, runVars>>

\* lines 105-108: Keys::random(i); the remainder by a cursor of 0 and an index
\* past the end of the store both panic in the caller
PoolRandom(i) ==
    /\ pool_ret' =
          IF allocated = 0
          THEN [NoRet EXCEPT !.op = "random", !.arg = i, !.before = allocated, !.ok = FALSE,
                             !.prev = pool_ret.op, !.prev_before = pool_ret.before]
          ELSE LET p == RandomIndex(i, allocated)
               IN IF IndexInBounds(p, Len(keys))
                  THEN [op |-> "random", arg |-> i, before |-> allocated, ok |-> TRUE,
                        lo |-> p, hi |-> p + 1, got |-> <<KeyAt(p)>>,
                        prev |-> pool_ret.op, prev_before |-> pool_ret.before]
                  ELSE [op |-> "random", arg |-> i, before |-> allocated, ok |-> FALSE,
                        lo |-> p, hi |-> p + 1, got |-> <<>>,
                        prev |-> pool_ret.op, prev_before |-> pool_ret.before]
    /\ UNCHANGED <<keys, allocated, runVars>>

\* lines 116-119: Keys::alloc_n(count); the fetch_add comes first, the slice
\* that is out of bounds panics in the caller
PoolAllocN(count) ==
    /\ FetchAdd(allocated, count) <= MaxCursor
    /\ allocated' = FetchAdd(allocated, count)
    /\ pool_ret' =
          IF SliceInBounds(allocated, count, Len(keys))
          THEN [op |-> "alloc_n", arg |-> count, before |-> allocated, ok |-> TRUE,
                lo |-> allocated, hi |-> allocated + count,
                got |-> SubSeq(keys, allocated + 1, allocated + count),
                prev |-> pool_ret.op, prev_before |-> pool_ret.before]
          ELSE [NoRet EXCEPT !.op = "alloc_n", !.arg = count, !.before = allocated,
                             !.ok = FALSE, !.prev = pool_ret.op,
                             !.prev_before = pool_ret.before]
    /\ UNCHANGED <<keys, runVars>>

PoolNext ==
    \/ PoolReset
    \/ \E i \in 0..MaxRand : PoolRandom(i)
    \/ \E count \in 0..MaxCount : PoolAllocN(count)

PoolSpec == PoolInit /\ [][PoolNext]_vars

\* ------------------------------------------------------- Mix::to_ops alone
MixWeight(m) == m.read + m.insert + m.remove + m.update + m.upsert

MixInputs ==
    { m \in [read : 0..MaxWeight, insert : 0..MaxWeight, remove : 0..MaxWeight,
             update : 0..MaxWeight, upsert : 0..MaxWeight] : MixWeight(m) <= MaxMixLen }

MixInit ==
    /\ mix \in MixInputs
    /\ to_ops_ret = NoOps
    /\ keys \in KeyStores(0)
    /\ allocated = 0
    /\ pool_ret = NoRet
    /\ config = NoConfig
    /\ InitRun

\* lines 174-183: Mix::to_ops
MixToOps ==
    /\ ~to_ops_ret.done
    /\ \E list \in ToOps(mix) : to_ops_ret' = [done |-> TRUE, list |-> list]
    /\ UNCHANGED <<poolVars, config, mix, coordVars, workerVars, new_keys, barrier, mutex,
                   results, coll, measurement, histVars>>

MixNext == MixToOps

MixSpec == MixInit /\ [][MixNext]_vars

\* ------------------------------------------------------------- properties
\* the positions of the store a thread's slice covers
Range(t) == new_keys[t].lo .. (new_keys[t].lo + new_keys[t].n - 1)

\* the coordinator's alloc_n(prefill) has been called
PrefillAllocCalled ==
    cpc \notin {"start", "reset", "prefill_alloc"} /\ cpanic # "divide_by_zero"

\* the coordinator's keys.reset() has been called
ResetCalled == cpc \notin {"start", "reset"} /\ cpanic # "divide_by_zero"

\* worker w's alloc_n(keys_needed_per_thread) has been called
AllocCalled(w) == wpc[w] \in {"loop", "push", "finished", "panicked"}

\* worker w has taken its start_time
InTimedRegion(w) == wpc[w] \in {"run_ops", "loop", "push", "finished", "panicked"}

\* worker w has pinned its handle
Pinned(w) == wpc[w] \notin {"unspawned", "pin"}

RECURSIVE SumCalls(_)
SumCalls(n) == IF n = 0 THEN 0 ELSE Len(calls[n]) + SumCalls(n - 1)

HotLoopCauses == {"op_mix", "new_keys", "random", "collection"}

\* C1: the ranges alloc_n returned to different callers of a run (the prefill
\* and the workers) are pairwise disjoint, and the cursor is the sum of the
\* counts requested by the calls made so far, so prefill + thread_count *
\* keys_needed_per_thread once all of them have been made.
C1_DisjointRanges ==
    /\ \A t1, t2 \in Threads :
          (t1 # t2 /\ new_keys[t1].has /\ new_keys[t2].has) => Range(t1) \cap Range(t2) = {}
    /\ ResetCalled =>
          allocated = (IF PrefillAllocCalled THEN config.prefill ELSE 0)
                      + config.keys_needed_per_thread
                        * Cardinality({ w \in Workers : AllocCalled(w) })
    /\ (PrefillAllocCalled /\ \A w \in Workers : AllocCalled(w) /\ config.thread_count > 0) =>
          allocated = config.prefill + config.thread_count * config.keys_needed_per_thread

C1_Witness ==
    /\ config.thread_count = 2 /\ config.prefill > 0 /\ config.keys_needed_per_thread > 0
    /\ \A t \in 0..2 : new_keys[t].has
    /\ allocated = config.prefill + 2 * config.keys_needed_per_thread

\* C2: the cursor of a pool is at most the length of its backing store, after
\* any sequence of reset, random and alloc_n calls, failed alloc_n calls included.
C2_CursorWithinStore == allocated <= Len(keys)

\* C3: an alloc_n request that exceeds the store returns no range (every range
\* returned lies inside the store and has the requested length), the thread
\* that made it does nothing after it, and the run returns no Measurement; when
\* it is the prefill request, nothing was inserted and no worker was spawned.
C3_ExhaustedPoolAborts ==
    /\ \A t \in Threads : new_keys[t].has =>
          /\ new_keys[t].lo + new_keys[t].n <= Len(keys)
          /\ new_keys[t].n = (IF t = 0 THEN config.prefill ELSE config.keys_needed_per_thread)
    /\ cpanic = "alloc_n" =>
          /\ ~new_keys[0].has /\ cpc = "panicked"
          /\ prefill_inserts = 0 /\ inserted[0] = {} /\ coll = {}
          /\ \A w \in WorkerIds : wpc[w] = "unspawned"
          /\ ~measurement.made
    /\ \A w \in WorkerIds : wpanic[w] = "alloc_n" =>
          /\ ~new_keys[w].has /\ wpc[w] = "panicked"
          /\ calls[w] = <<>> /\ inserted[w] = {}
          /\ \A k \in 1..Len(results) : results[k] # w
          /\ ~measurement.made

C3_Witness ==
    /\ \E w \in Workers : wpanic[w] = "alloc_n"
    /\ \E v \in Workers : wpc[v] = "finished"
    /\ cpc = "panicked" /\ cpanic = "join"

\* C4: no worker is in its timed region (has taken its start_time) before
\* every worker has pinned its handle and allocated its keys.
C4_SetupBeforeTimedRegion ==
    \A w \in Workers : InTimedRegion(w) => \A v \in Workers : Pinned(v) /\ AllocCalled(v)

\* C5: prefill_complete() is called exactly once in a run that gets past
\* prefill, after all of the prefill inserts and before any worker exists,
\* so before any collection operation of a worker.
C5_PrefillCompleteOnce ==
    /\ prefill_complete_calls <= 1
    /\ (cpc \in {"spawn", "waiting", "join", "done"} \/ cpanic = "join") =>
          prefill_complete_calls = 1
    /\ prefill_complete_calls = 1 => prefill_inserts = config.prefill
    /\ prefill_complete_calls = 0 =>
          \A w \in WorkerIds : wpc[w] = "unspawned" /\ calls[w] = <<>>

C5_Witness ==
    /\ config.prefill > 0
    /\ prefill_complete_calls = 1
    /\ \E w \in Workers : calls[w] # <<>>

\* C6: in a run that completes, each worker has dispatched exactly
\* floor(total_ops / thread_count) operations, whatever they returned, and all
\* workers together real_total_ops of them: total_ops less the remainder.
C6_OpsPerThreadExact ==
    measurement.made =>
        /\ config.thread_count > 0
        /\ \A w \in Workers :
              /\ Len(calls[w]) = config.total_ops \div config.thread_count
              /\ wi[w] = config.total_ops \div config.thread_count
        /\ SumCalls(config.thread_count) = measurement.real_total_ops
        /\ measurement.real_total_ops
              = (config.total_ops \div config.thread_count) * config.thread_count
        /\ SumCalls(config.thread_count)
              = config.total_ops - (config.total_ops % config.thread_count)

C6_Witness ==
    /\ measurement.made
    /\ config.total_ops % config.thread_count # 0
    /\ \E w \in Workers : total_success[w] > 0

\* C7: no call of random during a run fails: the position it reads is inside
\* the allocated prefix and inside the backing store.
C7_RandomNeverFails == \A w \in WorkerIds : wpanic[w] # "random"

\* C8: a degenerate configuration never reaches the aggregator: no
\* Measurement is made over zero operations.
C8_DegenerateRejected == measurement.made => measurement.real_total_ops > 0

\* C9: a worker that panicked makes the run fail at the join: no Measurement
\* is made, so none from the durations of the workers that survived.
C9_WorkerPanicIsFatal ==
    /\ (\E w \in Workers : wpc[w] = "panicked") => ~measurement.made /\ cpc # "done"
    /\ measurement.made =>
          /\ \A w \in Workers : wpc[w] = "finished"
          /\ Len(measurement.durations) = config.thread_count

C9_Witness ==
    /\ \E w \in Workers : wpanic[w] \in HotLoopCauses
    /\ Len(results) > 0
    /\ cpc = "panicked" /\ cpanic = "join"

\* C10: reset() sets the cursor to 0 and leaves the backing store as Keys::new
\* built it, and the alloc_n(n) that follows it, with n <= len, returns the
\* range [0, n): the first n keys of the store.
C10_ResetRewinds ==
    /\ pool_ret.op = "reset" => allocated = 0
    /\ keys \in KeyStores(Len(keys))
    /\ (pool_ret.op = "alloc_n" /\ pool_ret.prev = "reset" /\ pool_ret.arg <= Len(keys)) =>
          /\ pool_ret.ok
          /\ pool_ret.lo = 0 /\ pool_ret.hi = pool_ret.arg
          /\ pool_ret.got = SubSeq(keys, 1, pool_ret.arg)
          /\ allocated = pool_ret.arg

C10_Witness ==
    /\ pool_ret.op = "alloc_n" /\ pool_ret.prev = "reset" /\ pool_ret.prev_before > 0
    /\ pool_ret.ok /\ pool_ret.arg > 0

\* the occurrences of a tag in a list of operations
Count(tag, list) == Cardinality({ i \in 1..Len(list) : list[i] = tag })

\* C11: to_ops returns a list of length read + insert + remove + update +
\* upsert that holds exactly read Read, insert Insert, remove Remove, update
\* Update and upsert Upsert tags, whatever permutation the shuffle picked: the
\* tags after the shuffle are, with their multiplicities, those before it.
C11_ToOpsExact ==
    to_ops_ret.done =>
        /\ Len(to_ops_ret.list) = mix.read + mix.insert + mix.remove + mix.update + mix.upsert
        /\ Count("Read", to_ops_ret.list) = mix.read
        /\ Count("Insert", to_ops_ret.list) = mix.insert
        /\ Count("Remove", to_ops_ret.list) = mix.remove
        /\ Count("Update", to_ops_ret.list) = mix.update
        /\ Count("Upsert", to_ops_ret.list) = mix.upsert
        /\ \A i \in 1..Len(to_ops_ret.list) : to_ops_ret.list[i] \in Operation

C11_Witness ==
    /\ to_ops_ret.done
    /\ mix.read = 1 /\ mix.insert = 1 /\ mix.remove = 1 /\ mix.update = 1 /\ mix.upsert = 1
    /\ to_ops_ret.list[1] = "Upsert" /\ to_ops_ret.list[5] = "Read"

\* the coordinator has pinned its handle
CoordPinned == cpc \in {"prefill_insert", "spawn", "waiting", "join", "done"} \/ cpanic = "join"

\* the run has ended: run_shared_map_test returned or panicked
RunEnded == cpc \in {"done", "panicked"}

\* C12 as stated: in every run pin() has been called exactly thread_count + 1
\* times, every worker pinned before it arrived at the barrier, and a handle
\* is called only by the thread that pinned it.
C12_PinCountEveryRun ==
    /\ RunEnded => pin_calls = config.thread_count + 1
    /\ \A w \in Workers : InTimedRegion(w) => Pinned(w)
    /\ \A h \in Threads : handle_users[h] \subseteq {h}

\* C12, amended: in a run whose coordinator reaches the barrier, pin() is
\* called exactly thread_count + 1 times, once by the coordinator and once by
\* each worker, all of them before any worker is in its timed region; a run
\* that aborts before (thread_count = 0, or a prefill request beyond the pool)
\* never calls pin(). A handle is called only by the thread that pinned it.
C12_PinCount ==
    /\ pin_calls = (IF CoordPinned THEN 1 ELSE 0)
                   + Cardinality({ w \in Workers : Pinned(w) })
    /\ cpanic \in {"divide_by_zero", "alloc_n"} => pin_calls = 0
    /\ (cpc \in {"join", "done"} \/ cpanic = "join") => pin_calls = config.thread_count + 1
    /\ (\E w \in Workers : InTimedRegion(w)) => pin_calls = config.thread_count + 1
    /\ \A h \in Threads : handle_users[h] \subseteq {h}

C12_Witness ==
    /\ cpc = "done" /\ config.thread_count = 2 /\ pin_calls = 3
    /\ \A h \in 0..2 : handle_users[h] = {h}

\* C13: the i-th operation a worker dispatches is the call of the tag
\* operations[i mod len(operations)], with Read -> get, Insert -> insert,
\* Remove -> remove, Update -> update and Upsert -> update, so all workers
\* issue the same sequence of call kinds, and only gets when every tag is Read.
C13_DispatchBySequence ==
    /\ \A w \in WorkerIds :
          /\ Len(calls[w]) = wi[w]
          /\ \A k \in 1..Len(calls[w]) :
                /\ Len(config.operations) > 0
                /\ LET tag == config.operations[((k - 1) % Len(config.operations)) + 1]
                   IN calls[w][k] = (IF tag = "Read" THEN "get"
                                     ELSE IF tag = "Insert" THEN "insert"
                                     ELSE IF tag = "Remove" THEN "remove"
                                     ELSE "update")
    /\ \A w, v \in WorkerIds : \A k \in 1..Len(calls[w]) :
          k <= Len(calls[v]) => calls[w][k] = calls[v][k]
    /\ (\A i \in 1..Len(config.operations) : config.operations[i] = "Read") =>
          \A w \in WorkerIds : \A k \in 1..Len(calls[w]) : calls[w][k] = "get"

C13_Witness ==
    /\ config.operations = <<"Upsert", "Update">>
    /\ \E w \in Workers : calls[w] = <<"update", "update", "update">>

\* C14: the j-th insert of a worker takes the key at position j mod
\* keys_needed_per_thread of the worker's own slice, for every value of
\* keys_needed_per_thread, a slice shorter than the number of inserts included:
\* no insert fails for want of a key.
C14_InsertCyclesSlice ==
    \A w \in WorkerIds :
        /\ wpanic[w] # "new_keys"
        /\ \A j \in 1..Len(insert_log[w]) :
              /\ new_keys[w].n > 0
              /\ insert_log[w][j] = new_keys[w].lo + ((j - 1) % new_keys[w].n)

\* C15: no key is passed to insert by two different threads: what one worker
\* inserted is disjoint from what any other worker and the prefill inserted,
\* also when workers cycle through their slices.
C15_NoSharedInsertKeys ==
    \A t1, t2 \in Threads : t1 # t2 => inserted[t1] \cap inserted[t2] = {}

C15_Witness ==
    /\ config.thread_count = 2
    /\ inserted[0] # {}
    /\ \A w \in 1..2 : Len(insert_log[w]) = 2 /\ Cardinality(inserted[w]) = 1

\* C16: when no worker fails, each worker pushes exactly one duration into
\* results, holding the mutex while it does and only after its loop has run
\* its ops_per_thread iterations; the aggregator runs only after all
\* thread_count workers were joined, on a results list of exactly
\* thread_count durations, one per worker.
C16_OnePushPerWorker ==
    /\ \A w \in WorkerIds :
          /\ wpc[w] = "push" =>
                /\ mutex = w
                /\ wi[w] = OpsPerThread
                /\ Count(w, results) = 0
          /\ Count(w, results) = (IF wpc[w] = "finished" THEN 1 ELSE 0)
          /\ wpc[w] = "finished" => wi[w] = OpsPerThread
    /\ mutex # 0 => wpc[mutex] = "push"
    /\ measurement.made =>
          /\ ci = config.thread_count
          /\ \A w \in Workers : wpc[w] = "finished"
          /\ Len(results) = config.thread_count
          /\ measurement.durations = results
          /\ \A w \in Workers : Count(w, results) = 1

C16_Witness ==
    /\ measurement.made
    /\ config.thread_count = 2
    /\ Len(measurement.durations) = 2
    /\ OpsPerThread = 2

\* the pool holds the keys the configuration asks for
AdequatePool ==
    Len(keys) >= config.prefill + config.thread_count * config.keys_needed_per_thread

\* C17: under fair scheduling, with collection calls that return,
\* thread_count > 0 and an adequate pool, every run terminates with a
\* Measurement: all workers and the coordinator pass the barrier, every worker
\* completes its ops_per_thread iterations and every join returns.
C17_RunTerminates ==
    (config.thread_count > 0 /\ AdequatePool) =>
        <>( /\ measurement.made
            /\ \A w \in Workers : wpc[w] = "finished" /\ wi[w] = OpsPerThread )

\* C18 as stated: reset() is executed exactly once in a run, by the
\* coordinator before the prefill allocation and before any worker is
\* spawned, and every step after it leaves the cursor equal or larger.
C18_ResetExactlyOnce ==
    [][ /\ RunEnded' => reset_calls' = 1
        /\ reset_calls' # reset_calls =>
              /\ cpc = "reset" /\ ~PrefillAllocCalled
              /\ \A w \in WorkerIds : wpc[w] = "unspawned"
        /\ ResetCalled => allocated' >= allocated ]_vars

\* C18, amended: reset() is executed at most once in a run, exactly once
\* when thread_count > 0 and never when thread_count = 0 (the run then aborts
\* at the division before it); it is executed by the coordinator before the
\* prefill allocation and before any worker is spawned, and every step after
\* it, the alloc_n and random calls of the coordinator and of the workers,
\* leaves the cursor equal or larger.
C18_CursorMonotonic ==
    [][ /\ reset_calls' <= 1
        /\ ResetCalled' => reset_calls' = 1
        /\ (RunEnded' /\ config.thread_count > 0) => reset_calls' = 1
        /\ cpanic' = "divide_by_zero" => (reset_calls' = 0 /\ config.thread_count = 0)
        /\ reset_calls' # reset_calls =>
              /\ cpc = "reset" /\ ~PrefillAllocCalled
              /\ \A w \in WorkerIds : wpc[w] = "unspawned"
        /\ ResetCalled => allocated' >= allocated ]_vars

C18_Witness ==
    /\ cpc = "done" /\ reset_calls = 1
    /\ config.thread_count = 2 /\ config.prefill = 1 /\ config.keys_needed_per_thread = 1
    /\ allocated = 3
    /\ \E w \in Workers : "get" \in { calls[w][k] : k \in 1..Len(calls[w]) }

\* every tag of the operation sequence is Read
AllRead == \A i \in 1..Len(config.operations) : config.operations[i] = "Read"

\* C19: in a run with prefill + keys_needed_per_thread > 0 and an adequate
\* pool, the cursor a worker's random(i) observes is at least
\* prefill + keys_needed_per_thread, hence non-zero: the prefill allocation
\* and the worker's own alloc_n precede its first operation, and no call of
\* random fails.
C19_RandomSeesAllocatedCursor ==
    (config.prefill + config.keys_needed_per_thread > 0 /\ AdequatePool) =>
        \A w \in WorkerIds :
            /\ wpc[w] = "loop" =>
                  /\ allocated >= config.prefill + config.keys_needed_per_thread
                  /\ allocated > 0
                  /\ allocated <= Len(keys)
            /\ wpanic[w] # "random"

C19_Witness ==
    /\ config.prefill = 0 /\ config.keys_needed_per_thread = 1 /\ AdequatePool
    /\ config.thread_count = 2
    /\ \A w \in Workers : wpc[w] = "finished" /\ calls[w] = <<"get", "get">>

\* C20: in a run whose operation sequence holds only Read tags no worker
\* calls insert, remove or update: the prefill inserts are the only mutating
\* calls, so after prefill_complete() the collection holds the prefilled keys
\* until the run ends, while every worker's alloc_n still advances the cursor
\* by keys_needed_per_thread.
C20_ReadOnlyRun ==
    AllRead =>
        /\ \A w \in WorkerIds :
              /\ \A k \in 1..Len(calls[w]) : calls[w][k] = "get"
              /\ inserted[w] = {} /\ insert_log[w] = <<>>
        /\ prefill_complete_calls >= 1 =>
              /\ coll = inserted[0]
              /\ Cardinality(coll) = config.prefill
        /\ PrefillAllocCalled =>
              allocated = config.prefill + config.keys_needed_per_thread
                              * Cardinality({ w \in WorkerIds : AllocCalled(w) })

C20_Witness ==
    /\ config.operations = <<"Read">> /\ cpc = "done"
    /\ config.thread_count = 2 /\ config.prefill = 1 /\ config.keys_needed_per_thread = 1
    /\ allocated = 3 /\ Cardinality(coll) = 1
    /\ \A w \in Workers : Len(calls[w]) = 2

====
